---- MODULE Spec2Model ----
(***************************************************************************)
(* The indexed record store of the personal ledger (src/account.py,        *)
(* src/record.py): an Account object over one backing file and its .bak    *)
(* sibling.  The two category strings of the source are written "Income"   *)
(* and "Expense" here.                                                     *)
(***************************************************************************)
EXTENDS Integers, Sequences, FiniteSets, TLC

VARIABLES
    file,            \* content of the backing file self.data_file
    bak,             \* content of the sibling file <data_file>.bak
    pads_year,       \* whether the C library's strftime pads %Y to four digits
    pc,              \* "new" before Account.__init__ has run, "ready" after
    records,         \* self.records: the Record objects, in insertion order
    date_index,      \* self.date_index: "YYYY-MM" key -> sequence of object ids
    category_index,  \* self.category_index: category -> sequence of object ids
    ret,             \* what the most recent call did and returned
    committed,       \* history: the file content as of the last save that succeeded
    other            \* a second Account, of another process, on the same data_file

vars == <<file, bak, pads_year, pc, records, date_index, category_index, ret, committed,
          other>>

\* ------------------------------------------------------------------ bounds

MaxRecords == 3
MaxFileRecs == 2

\* ------------------------------------------------------------ plain values

Income == "Income"
Expense == "Expense"
Recognized == {Income, Expense}

\* A datetime.date; NoDate stands for an argument that was not given.
Date(y, m, d) == [y |-> y, m |-> m, d |-> d]
NoDate == Date(0, 0, 0)
NoCategory == ""

\* date.__le__ / date.__ge__: chronological order.
DateLE(a, b) ==
    \/ a.y < b.y
    \/ a.y = b.y /\ a.m < b.m
    \/ a.y = b.y /\ a.m = b.m /\ a.d <= b.d

IsLeap(y) == (y % 4 = 0 /\ y % 100 # 0) \/ y % 400 = 0

DaysInMonth(y, m) ==
    IF m = 2 THEN (IF IsLeap(y) THEN 29 ELSE 28)
    ELSE IF m \in {4, 6, 9, 11} THEN 30 ELSE 31

\* Record.__init__: the four fields, stored as given.
Record(date, category, amount, description) ==
    [date |-> date, category |-> category, amount |-> amount,
     description |-> description]

RecordParams == {"date", "category", "amount", "description"}

\* ------------------------------------------------- text of a date (strings
\* are sequences of one-character strings)

DigitChars == <<"0", "1", "2", "3", "4", "5", "6", "7", "8", "9">>

IsDigit(c) == \E i \in 1..10 : DigitChars[i] = c

DigitVal(c) == (CHOOSE i \in 1..10 : DigitChars[i] = c) - 1

RECURSIVE Dec(_)
Dec(n) == IF n < 10 THEN <<DigitChars[n + 1]>>
          ELSE Dec(n \div 10) \o <<DigitChars[(n % 10) + 1]>>

ZeroPad(n, w) ==
    LET s == Dec(n) IN
    IF Len(s) >= w THEN s ELSE [i \in 1..(w - Len(s)) |-> "0"] \o s

RECURSIVE Num(_)
Num(s) == IF s = <<>> THEN 0
          ELSE Num(SubSeq(s, 1, Len(s) - 1)) * 10 + DigitVal(s[Len(s)])

AllDigits(s) == \A i \in 1..Len(s) : IsDigit(s[i])

\* %Y of strftime: the C library's; glibc writes the year without padding,
\* other platforms pad it to four digits.
FormatYear(y) == IF pads_year THEN ZeroPad(y, 4) ELSE Dec(y)

\* date.strftime("%Y-%m-%d")
strftime_Ymd(date) ==
    FormatYear(date.y) \o <<"-">> \o ZeroPad(date.m, 2) \o <<"-">> \o ZeroPad(date.d, 2)

\* date.strftime("%Y-%m")
strftime_Ym(date) == FormatYear(date.y) \o <<"-">> \o ZeroPad(date.m, 2)

\* datetime.datetime.strptime(s, "%Y-%m-%d").date(): %Y is exactly four digits,
\* %m and %d one or two digits, the whole text is consumed, and the date must
\* exist.  ok = FALSE stands for the ValueError.
strptime_Ymd(s) ==
    LET dashes == {i \in 1..Len(s) : s[i] = "-"} IN
    IF Cardinality(dashes) # 2 THEN [ok |-> FALSE, date |-> NoDate]
    ELSE
        LET i == CHOOSE k \in dashes : \A l \in dashes : k <= l
            j == CHOOSE k \in dashes : \A l \in dashes : k >= l
            yp == SubSeq(s, 1, i - 1)
            mp == SubSeq(s, i + 1, j - 1)
            dp == SubSeq(s, j + 1, Len(s))
            shape == /\ Len(yp) = 4 /\ AllDigits(yp)
                     /\ Len(mp) \in 1..2 /\ AllDigits(mp)
                     /\ Len(dp) \in 1..2 /\ AllDigits(dp)
        IN
        IF /\ shape
           /\ Num(yp) >= 1
           /\ Num(mp) \in 1..12
           /\ Num(dp) >= 1
           /\ Num(dp) <= DaysInMonth(Num(yp), Num(mp))
        THEN [ok |-> TRUE, date |-> Date(Num(yp), Num(mp), Num(dp))]
        ELSE [ok |-> FALSE, date |-> NoDate]

\* ------------------------------------------------------------- file content

\* A file is absent, holds a JSON array of objects, or holds text json.load
\* rejects (foreign content, or an array cut short by a failed write).
Absent == [kind |-> "absent", recs |-> <<>>]
Corrupt == [kind |-> "corrupt", recs |-> <<>>]
Json(rs) == [kind |-> "json", recs |-> rs]

\* A JSON value in the place of a date: a string, or something else (a number).
Str(s) == [t |-> "str", s |-> s]
NotStr == [t |-> "num", s |-> <<>>]

\* One JSON object of the array: the keys it has, and the values under the four
\* keys Record takes (a key it lacks carries a filler that is never read).
Obj(keys, date, category, amount, description) ==
    [keys |-> keys, date |-> date, category |-> category, amount |-> amount,
     description |-> description]

\* The dict save_records builds for one record (lines 96-101).
Dump(r) ==
    Obj(RecordParams, Str(strftime_Ymd(r.date)), r.category, r.amount, r.description)

\* json.dump of the whole list (lines 95-108).
Serialize(recs) == Json([i \in 1..Len(recs) |-> Dump(recs[i])])

\* ----------------------------------------------------------- load_records

\* LoadOne that indexes record_data['date'] without the test of line 66.
LoadOne_MissingDateRaises(o) ==
    IF "date" \notin o.keys THEN [what |-> "TypeError", rec |-> <<>>]
    ELSE IF o.date.t # "str" THEN [what |-> "TypeError", rec |-> <<>>]
    ELSE LET p == strptime_Ymd(o.date.s) IN
         IF ~p.ok THEN [what |-> "skip", rec |-> <<>>]
         ELSE IF o.keys # RecordParams THEN [what |-> "TypeError", rec |-> <<>>]
         ELSE [what |-> "load",
               rec |-> Record(p.date, o.category, o.amount, o.description)]

\* The body of the for loop on one record_data (lines 66-77): "skip" for a
\* record without date or whose date raises ValueError, "TypeError" for what
\* the inner try does not catch (strptime of a non-string, Record(**d) with
\* missing or unexpected keys), "load" otherwise.
LoadOne(o) ==
    IF "date" \notin o.keys THEN [what |-> "skip", rec |-> <<>>]
    ELSE IF o.date.t # "str" THEN [what |-> "TypeError", rec |-> <<>>]
    ELSE LET p == strptime_Ymd(o.date.s) IN
         IF ~p.ok THEN [what |-> "skip", rec |-> <<>>]
         ELSE IF o.keys # RecordParams THEN [what |-> "TypeError", rec |-> <<>>]
         ELSE [what |-> "load",
               rec |-> Record(p.date, o.category, o.amount, o.description)]

\* The for loop (lines 63-77): the records appended so far, or the exception
\* that left the loop.
RECURSIVE LoadLoop(_, _)
LoadLoop(objs, acc) ==
    IF objs = <<>> THEN [raised |-> FALSE, records |-> acc]
    ELSE LET one == LoadOne(Head(objs)) IN
         IF one.what = "TypeError" THEN [raised |-> TRUE, records |-> acc]
         ELSE IF one.what = "skip" THEN LoadLoop(Tail(objs), acc)
         ELSE LoadLoop(Tail(objs), Append(acc, one.rec))

\* load_records (lines 50-86): [] for an absent file, for a JSONDecodeError
\* and for any other exception.
load_records(f) ==
    IF f.kind = "absent" THEN <<>>
    ELSE IF f.kind = "corrupt" THEN <<>>
    ELSE LET r == LoadLoop(f.recs, <<>>) IN
         IF r.raised THEN <<>> ELSE r.records

\* ---------------------------------------------------------- _build_indexes

\* dict[key].append(id), creating the bucket first when the key is new
\* (lines 41-43 and 140-142).
BucketAppend(index, key, id) ==
    IF key \in DOMAIN index THEN [index EXCEPT ![key] = Append(@, id)]
    ELSE index @@ (key :> <<id>>)

\* category_index[category].append(id) under its membership test
\* (lines 46-47 and 145-146).
CategoryAppend(index, category, id) ==
    IF category \in DOMAIN index THEN [index EXCEPT ![category] = Append(@, id)]
    ELSE index

EmptyDateIndex == [k \in {} |-> <<>>]
EmptyCategoryIndex == [c \in Recognized |-> <<>>]

\* The loop of _build_indexes over records[i..] (lines 38-47).
RECURSIVE BuildFrom(_, _, _, _)
BuildFrom(recs, i, di, ci) ==
    IF i > Len(recs) THEN [date_index |-> di, category_index |-> ci]
    ELSE BuildFrom(recs, i + 1,
                   BucketAppend(di, strftime_Ym(recs[i].date), i),
                   CategoryAppend(ci, recs[i].category, i))

\* _build_indexes (lines 31-47).
build_indexes(recs) == BuildFrom(recs, 1, EmptyDateIndex, EmptyCategoryIndex)

\* ------------------------------------------------------------ save_records

\* Where a save can fail: os.makedirs (105), open for writing (107), json.dump
\* into the opened file (108), and shutil.copy2 opening or writing the copy (114).
SaveOutcomes == {"ok", "makedirs", "open", "write", "copy_open", "copy_write"}

\* SavedFile as a save that appended the newest record to what the file holds.
SavedFile_AppendsNewest(recs, f, io) ==
    IF io \in {"makedirs", "open"} THEN f
    ELSE IF io = "write" THEN Corrupt
    ELSE IF f.kind = "json" THEN Json(Append(f.recs, Dump(recs[Len(recs)])))
    ELSE Serialize(recs)

\* SavedFile as a save that wrote beside the file and renamed would leave it.
SavedFile_KeepsOldOnFailure(recs, f, io) ==
    IF io \in {"makedirs", "open", "write"} THEN f ELSE Serialize(recs)

\* The backing file after save_records: untouched before open succeeds,
\* truncated and cut short when the dump fails, the full dump otherwise.
SavedFile(recs, f, io) ==
    IF io \in {"makedirs", "open"} THEN f
    ELSE IF io = "write" THEN Corrupt
    ELSE Serialize(recs)

\* SavedBak as a backup taken of the old file before it is written over.
SavedBak_CopiesOldFile(recs, f, b, io) ==
    IF io \in {"makedirs", "open", "write", "copy_open"} THEN b
    ELSE IF io = "copy_write" THEN Corrupt
    ELSE IF f.kind # "absent" THEN f
    ELSE b

\* The .bak file after save_records: copy2 of the file just written (112-114).
SavedBak(recs, f, b, io) ==
    IF io \in {"makedirs", "open", "write", "copy_open"} THEN b
    ELSE IF io = "copy_write" THEN Corrupt
    ELSE IF SavedFile(recs, f, io).kind # "absent" THEN SavedFile(recs, f, io)
    ELSE b

\* ------------------------------------------------------------ query_records

\* results = self.records (line 172), as object ids in collection order.
AllIds == [i \in 1..Len(records) |-> i]

\* next_month that steps from December to January without advancing the year.
next_month_SameYear(current) ==
    IF current.m + 1 > 12 THEN Date(current.y, 1, 1)
    ELSE Date(current.y, current.m + 1, 1)

\* The next value of current in the month loop (lines 189-194).
next_month(current) ==
    IF current.m + 1 > 12 THEN Date(current.y + 1, 1, 1)
    ELSE Date(current.y, current.m + 1, 1)

\* The set date_range the while loop fills (lines 184-194).
RECURSIVE date_range(_, _)
date_range(current, end_date) ==
    IF DateLE(current, end_date)
    THEN {strftime_Ym(current)} \cup date_range(next_month(current), end_date)
    ELSE {}

\* The orders in which "for ym in date_range" (line 197) can meet the keys of
\* a set: a Python set of strings iterates in hash order.  Keys without a
\* bucket add nothing, so only the order of the others is enumerated.
IterationOrders(keys) ==
    {o \in [1..Cardinality(keys) -> keys] :
        \A i, j \in 1..Cardinality(keys) : i # j => o[i] # o[j]}

\* filtered after the loop of lines 197-199 has met the keys in this order.
RECURSIVE ExtendFromBuckets(_, _)
ExtendFromBuckets(order, i) ==
    IF i > Len(order) THEN <<>>
    ELSE (IF order[i] \in DOMAIN date_index THEN date_index[order[i]] ELSE <<>>)
         \o ExtendFromBuckets(order, i + 1)

\* InBounds with the test against end_date left out.
InBounds_IgnoresEnd(id, start_date, end_date) ==
    start_date = NoDate \/ DateLE(start_date, records[id].date)

\* The test of the final comprehension (lines 205-206) on record id.
InBounds(id, start_date, end_date) ==
    /\ start_date = NoDate \/ DateLE(start_date, records[id].date)
    /\ end_date = NoDate \/ DateLE(records[id].date, end_date)

\* category_candidates without the narrowing to the category's bucket.
category_candidates_NoNarrowing(category) == AllIds

\* results before the date filter (lines 172-176): the category's bucket when
\* a category is given and has one, the whole collection otherwise.
category_candidates(category) ==
    IF category # NoCategory /\ category \in DOMAIN category_index
    THEN category_index[category]
    ELSE AllIds

\* query_records that keeps the category narrowing when both bounds are given.
query_records_KeepsCategory(start_date, end_date, category, order) ==
    LET results == category_candidates(category) IN
    IF start_date # NoDate \/ end_date # NoDate
    THEN LET filtered == IF start_date # NoDate /\ end_date # NoDate
                         THEN SelectSeq(ExtendFromBuckets(order, 1),
                                        LAMBDA id : \E p \in 1..Len(results) :
                                                        results[p] = id)
                         ELSE results
         IN SelectSeq(filtered, LAMBDA id : InBounds(id, start_date, end_date))
    ELSE results

\* query_records (lines 172-208); order is the iteration order of date_range.
query_records(start_date, end_date, category, order) ==
    LET results == category_candidates(category) IN
    IF start_date # NoDate \/ end_date # NoDate
    THEN LET filtered == IF start_date # NoDate /\ end_date # NoDate
                         THEN ExtendFromBuckets(order, 1)
                         ELSE results
         IN SelectSeq(filtered, LAMBDA id : InBounds(id, start_date, end_date))
    ELSE results

\* ---------------------------------------------------------- calculate_total

\* The loop of calculate_total from record i on (lines 218-224).
RECURSIVE TotalFrom(_, _, _)
TotalFrom(i, total, category) ==
    IF i > Len(records) THEN total
    ELSE IF category # NoCategory /\ records[i].category # category
         THEN TotalFrom(i + 1, total, category)
    ELSE IF records[i].category = Income
         THEN TotalFrom(i + 1, total + records[i].amount, category)
    ELSE IF records[i].category = Expense
         THEN TotalFrom(i + 1, total - records[i].amount, category)
    ELSE TotalFrom(i + 1, total, category)

\* calculate_total that passes no filter on to the loop.
calculate_total_IgnoresFilter(category) == TotalFrom(1, 0, NoCategory)

\* calculate_total (lines 211-225).
calculate_total(category) == TotalFrom(1, 0, category)

\* ----------------------------------------------------------------- returns

Ret(op, category, amount, raised, save, value) ==
    [op |-> op, category |-> category, amount |-> amount, raised |-> raised,
     save |-> save, value |-> value]

\* ----------------------------------------------------------------- actions

\* Account.__init__ (lines 27-29): load, then build the indexes.
Construct ==
    /\ pc = "new"
    /\ pc' = "ready"
    /\ records' = load_records(file)
    /\ date_index' = build_indexes(records').date_index
    /\ category_index' = build_indexes(records').category_index
    /\ ret' = Ret("init", NoCategory, 0, "none", "none", <<>>)
    /\ UNCHANGED <<file, bak, pads_year, committed, other>>

\* validation_error with the amount test written < instead of <=.
validation_error_AllowsZero(category, amount) ==
    IF category \notin {Income, Expense} THEN "ValueError"
    ELSE IF amount < 0 THEN "ValueError"
    ELSE "none"

\* The two checks add_record starts with (lines 129-132): the exception raised.
validation_error(category, amount) ==
    IF category \notin {Income, Expense} THEN "ValueError"
    ELSE IF amount <= 0 THEN "ValueError"
    ELSE "none"

\* add_record's own update of the date index (lines 139-142).
add_date_index(index, date, id) ==
    IF strftime_Ym(date) \in DOMAIN index
    THEN [index EXCEPT ![strftime_Ym(date)] = Append(@, id)]
    ELSE index @@ (strftime_Ym(date) :> <<id>>)

\* add_category_index that files every new record under the first category.
add_category_index_WrongBucket(index, category, id) ==
    [index EXCEPT ![Income] = Append(@, id)]

\* add_record's own update of the category index (lines 145-146).
add_category_index(index, category, id) ==
    IF category \in DOMAIN index THEN [index EXCEPT ![category] = Append(@, id)]
    ELSE index

\* add_record (lines 121-151) with the save it ends in; outcomes are the ways
\* the file system lets that save end.
AddRecord(date, category, amount, description, outcomes) ==
    /\ pc = "ready"
    /\ IF validation_error(category, amount) # "none"
       THEN /\ ret' = Ret("add_record", category, amount,
                          validation_error(category, amount), "none", <<>>)
            /\ UNCHANGED <<file, bak, pads_year, pc, records, date_index,
                           category_index, committed, other>>
       ELSE \E io \in outcomes :
            /\ Len(records) < MaxRecords
            /\ records' = Append(records, Record(date, category, amount, description))
            /\ date_index' = add_date_index(date_index, date, Len(records) + 1)
            /\ category_index' = add_category_index(category_index, category,
                                                    Len(records) + 1)
            /\ file' = SavedFile(records', file, io)
            /\ bak' = SavedBak(records', file, bak, io)
            /\ committed' = IF io = "ok" THEN Serialize(records') ELSE committed
            /\ ret' = Ret("add_record", category, amount, "none", io, <<>>)
            /\ UNCHANGED <<pads_year, pc, other>>

\* The process ends and a fresh Account is constructed on the same path
\* (lines 27-29).  ret keeps how the last save of the old process ended and,
\* when it wrote everything, the collection it wrote.
Restart ==
    /\ pc = "ready"
    /\ records' = load_records(file)
    /\ date_index' = build_indexes(records').date_index
    /\ category_index' = build_indexes(records').category_index
    /\ ret' = Ret("init", NoCategory, 0, "none", ret.save,
                  IF ret.save = "ok" THEN records ELSE <<>>)
    /\ UNCHANGED <<file, bak, pads_year, pc, committed, other>>

\* A call of query_records; ret.value keeps the bounds and the list returned.
Query(start_date, end_date, category) ==
    /\ pc = "ready"
    /\ \E order \in IterationOrders(
              IF start_date # NoDate /\ end_date # NoDate
              THEN date_range(start_date, end_date) \cap DOMAIN date_index
              ELSE {}) :
          ret' = Ret("query_records", category, 0, "none", "none",
                     [start_date |-> start_date, end_date |-> end_date,
                      result |-> query_records(start_date, end_date, category, order)])
    /\ UNCHANGED <<file, bak, pads_year, pc, records, date_index, category_index,
                   committed, other>>

\* A call of calculate_total; ret.value is the total returned.
Total(category) ==
    /\ pc = "ready"
    /\ ret' = Ret("calculate_total", category, 0, "none", "none",
                  calculate_total(category))
    /\ UNCHANGED <<file, bak, pads_year, pc, records, date_index, category_index,
                   committed, other>>

\* The fields of an Account object before its __init__ has run (lines 22-26).
NewAccount ==
    [pc |-> "new", records |-> <<>>, date_index |-> EmptyDateIndex,
     category_index |-> EmptyCategoryIndex]

\* Account.__init__ of the second process (lines 27-29): it reads the file as
\* it is at that moment.
OtherConstruct ==
    /\ other.pc = "new"
    /\ other' = [pc |-> "ready", records |-> load_records(file),
                 date_index |-> build_indexes(load_records(file)).date_index,
                 category_index |-> build_indexes(load_records(file)).category_index]
    /\ ret' = Ret("other.init", NoCategory, 0, "none", "none", <<>>)
    /\ UNCHANGED <<file, bak, pads_year, pc, records, date_index, category_index,
                   committed>>

\* add_record of the second process (lines 121-151): the save it ends in
\* writes that process's own collection over the shared file.
OtherAddRecord(date, category, amount, description, outcomes) ==
    /\ other.pc = "ready"
    /\ IF validation_error(category, amount) # "none"
       THEN /\ ret' = Ret("other.add_record", category, amount,
                          validation_error(category, amount), "none", <<>>)
            /\ UNCHANGED <<file, bak, pads_year, pc, records, date_index,
                           category_index, committed, other>>
       ELSE \E io \in outcomes :
            /\ Len(other.records) < MaxRecords
            /\ other' = [pc |-> "ready",
                         records |-> Append(other.records,
                                            Record(date, category, amount, description)),
                         date_index |-> add_date_index(other.date_index, date,
                                                       Len(other.records) + 1),
                         category_index |-> add_category_index(other.category_index,
                                                category, Len(other.records) + 1)]
            /\ file' = SavedFile(other'.records, file, io)
            /\ bak' = SavedBak(other'.records, file, bak, io)
            /\ committed' = IF io = "ok" THEN Serialize(other'.records) ELSE committed
            /\ ret' = Ret("other.add_record", category, amount, "none", io, <<>>)
            /\ UNCHANGED <<pads_year, pc, records, date_index, category_index>>

\* query_records reaches its month loop with both bounds given (lines 182-185):
\* current starts at start_date and date_range is empty.  While the loop runs
\* pc is "month_loop" and ret.value holds the locals; steps counts the passes.
MonthLoopStart(start_date, end_date) ==
    /\ pc = "ready"
    /\ start_date # NoDate /\ end_date # NoDate
    /\ pc' = "month_loop"
    /\ ret' = Ret("month_loop", NoCategory, 0, "none", "none",
                  [start_date |-> start_date, end_date |-> end_date,
                   current |-> start_date, date_range |-> {}, steps |-> 0])
    /\ UNCHANGED <<file, bak, pads_year, records, date_index, category_index,
                   committed, other>>

\* One pass of "while current <= end_date" (lines 186-194).
MonthLoopStep ==
    /\ pc = "month_loop"
    /\ DateLE(ret.value.current, ret.value.end_date)
    /\ ret' = [ret EXCEPT !.value.date_range = @ \cup {strftime_Ym(ret.value.current)},
                          !.value.current = next_month(@),
                          !.value.steps = @ + 1]
    /\ UNCHANGED <<file, bak, pads_year, pc, records, date_index, category_index,
                   committed, other>>

\* The loop condition fails (line 186) and query_records goes on (line 196).
MonthLoopExit ==
    /\ pc = "month_loop"
    /\ ~DateLE(ret.value.current, ret.value.end_date)
    /\ pc' = "ready"
    /\ UNCHANGED <<file, bak, pads_year, records, date_index, category_index,
                   ret, committed, other>>

\* ------------------------------------------------- the store's life (Spec)

AddDates == {Date(2024, 1, 15), Date(2024, 3, 10)}
\* <<category, amount>> of the calls: the accepted ones, and the rejected ones
\* of the validation example ("Gift", 0, -5).
AddArgs == {<<Income, 100>>, <<Expense, 100>>, <<"Gift", 100>>, <<Income, 0>>,
            <<Expense, -5>>}
Descriptions == {"salary"}

\* The text "YYYY-MM-DD" of a date as a person or any platform writes it for a
\* year of four digits.
IsoText(y, m, d) == ZeroPad(y, 4) \o <<"-">> \o ZeroPad(m, 2) \o <<"-">> \o ZeroPad(d, 2)

GoodObj == Obj(RecordParams, Str(IsoText(2024, 1, 15)), Expense, 100, "rent")
GiftObj == Obj(RecordParams, Str(IsoText(2024, 3, 10)), "Gift", 50, "present")
NoDateObj == Obj(RecordParams \ {"date"}, NotStr, Income, 200, "old")

InitFiles == {Absent, Corrupt, Json(<<GoodObj>>), Json(<<GoodObj, NoDateObj>>),
              Json(<<GiftObj, GoodObj>>)}

InitWith(files) ==
    /\ file \in files
    /\ bak = Absent
    /\ pads_year \in BOOLEAN
    /\ pc = "new"
    /\ records = <<>>
    /\ date_index = EmptyDateIndex
    /\ category_index = EmptyCategoryIndex
    /\ ret = Ret("none", NoCategory, 0, "none", "none", <<>>)
    /\ committed = file
    /\ other = NewAccount

Init == InitWith(InitFiles)

Next ==
    \/ Construct
    \/ \E date \in AddDates, arg \in AddArgs, description \in Descriptions :
          AddRecord(date, arg[1], arg[2], description, SaveOutcomes)

Spec == Init /\ [][Next]_vars

\* ------------------------------- saving and loading again (SpecRoundTrip)

\* Dates a person can enter at the menu (four digits of year), one of them
\* before the year 1000.
RoundTripDates == {Date(2024, 1, 15), Date(2024, 12, 31), Date(999, 12, 31)}

InitRoundTrip == InitWith({Absent, Json(<<GoodObj>>)})

\* The file system lets every save through.
NextRoundTrip ==
    \/ Construct
    \/ \E date \in RoundTripDates, arg \in AddArgs, description \in Descriptions :
          AddRecord(date, arg[1], arg[2], description, {"ok"})
    \/ Restart

SpecRoundTrip == InitRoundTrip /\ [][NextRoundTrip]_vars

\* C3: a fresh Account constructed on the path right after a save that wrote a
\* non-empty collection holds a collection of the same length and order, equal
\* field by field to the one saved.
C3_RoundTrip ==
    (ret.op = "init" /\ ret.save = "ok" /\ ret.value # <<>>) => records = ret.value

\* ------------------------------------------------ loading a file (SpecLoad)

BadDateObj == Obj(RecordParams, Str(IsoText(2024, 2, 30)), Income, 300, "leap")
LooseDateObj ==
    Obj(RecordParams, Str(<<"2", "0", "2", "4", "-", "3", "-", "5">>), Income, 400, "loose")
NoAmountObj ==
    Obj(RecordParams \ {"amount"}, Str(IsoText(2024, 1, 16)), Income, 0, "partial")
NumDateObj == Obj(RecordParams, NotStr, Expense, 600, "stamp")
BadDateNoAmountObj ==
    Obj(RecordParams \ {"amount"}, Str(<<"2", "0", "2", "4", "/", "0", "1">>), Income, 0, "slash")

LoadObjs == {GoodObj, NoDateObj, BadDateObj, LooseDateObj, NoAmountObj, NumDateObj,
             BadDateNoAmountObj}

SeqsUpTo(S, n) == UNION {[1..k -> S] : k \in 0..n}

InitLoad == InitWith({Absent, Corrupt} \cup {Json(rs) : rs \in SeqsUpTo(LoadObjs, MaxFileRecs)})

NextLoad ==
    \/ Construct
    \/ Restart

SpecLoad == InitLoad /\ [][NextLoad]_vars

\* ------------------------- adding after a load that left records (SpecLost)

\* Files of which load_records brings in less than they hold: not JSON, a
\* record without date, a date that is no calendar day, a record that ends
\* the whole load.
LostFiles == {Corrupt, Json(<<GoodObj, NoDateObj>>), Json(<<BadDateObj, GoodObj>>),
              Json(<<GoodObj, NoAmountObj>>)}

LostAdds == {<<Date(2024, 3, 10), Income, 100>>, <<Date(2024, 3, 10), "Gift", 100>>}

InitLost == InitWith(LostFiles)

NextLost ==
    \/ Construct
    \/ \E add \in LostAdds, description \in Descriptions :
          AddRecord(add[1], add[2], add[3], description, SaveOutcomes)

SpecLost == InitLost /\ [][NextLost]_vars

\* ------------------------------------------- queries and totals (SpecQuery)

LedgerObjs == {Obj(RecordParams, Str(IsoText(2023, 12, 31)), Income, 500, "bonus"),
               GoodObj,
               Obj(RecordParams, Str(IsoText(2024, 1, 31)), "Gift", 50, "present")}

\* <<date, category, amount>> of the adds.
QueryAdds == {<<Date(2024, 3, 10), Income, 200>>, <<Date(2024, 1, 31), Expense, 200>>}

QueryDates == {NoDate, Date(2023, 12, 31), Date(2024, 1, 15), Date(2024, 2, 1),
               Date(2024, 4, 1)}
QueryCategories == {NoCategory, Income, Expense}
TotalCategories == {NoCategory, Income, Expense, "Gift"}

InitQuery == InitWith({Json(rs) : rs \in SeqsUpTo(LedgerObjs, MaxFileRecs)})

NextQuery ==
    \/ Construct
    \/ \E add \in QueryAdds, description \in Descriptions :
          AddRecord(add[1], add[2], add[3], description, {"ok"})
    \/ \E start_date \in QueryDates, end_date \in QueryDates,
          category \in QueryCategories :
          Query(start_date, end_date, category)
    \/ \E category \in TotalCategories : Total(category)

SpecQuery == InitQuery /\ [][NextQuery]_vars

\* ------------------------------------- the month loop of a query (SpecMonths)

\* Bounds of a query: ends of months, a leap day, both sides of a new year.
MonthDates == {Date(2023, 11, 30), Date(2023, 12, 31), Date(2024, 1, 1),
               Date(2024, 1, 31), Date(2024, 2, 29), Date(2025, 1, 15)}

InitMonths == InitWith({Absent})

NextMonths ==
    \/ Construct
    \/ \E start_date \in MonthDates, end_date \in MonthDates :
          MonthLoopStart(start_date, end_date)
    \/ MonthLoopStep
    \/ MonthLoopExit

SpecMonths == InitMonths /\ [][NextMonths]_vars

\* ------------------------------------ two processes on one file (SpecTwo)

\* <<date, category, amount, description>> of the adds of each process.
FirstAdds == {<<Date(2024, 1, 15), Income, 100, "salary">>}
SecondAdds == {<<Date(2024, 3, 10), Expense, 100, "groceries">>}

InitTwo == InitWith({Absent, Json(<<GoodObj>>)})

NextTwo ==
    \/ Construct
    \/ \E add \in FirstAdds : AddRecord(add[1], add[2], add[3], add[4], {"ok"})
    \/ OtherConstruct
    \/ \E add \in SecondAdds : OtherAddRecord(add[1], add[2], add[3], add[4], {"ok"})

SpecTwo == InitTwo /\ [][NextTwo]_vars

\* ------------------------------------------------------------------ claims

IdsOf(bucket) == {bucket[p] : p \in 1..Len(bucket)}

Increasing(bucket) == \A p, q \in 1..Len(bucket) : p < q => bucket[p] < bucket[q]

\* C1: after construction and any adds, date_index and category_index are what
\* a rebuild from records gives: every record is in exactly one date bucket,
\* the one of its year and month, and in the bucket of its category and no
\* other when the category is recognized (in none otherwise); every bucket is
\* in insertion order and holds only records of the collection.
C1_IndexesAreTheRebuild ==
    pc = "ready" =>
        /\ date_index = build_indexes(records).date_index
        /\ category_index = build_indexes(records).category_index
        /\ DOMAIN category_index = Recognized
        /\ \A i \in 1..Len(records) :
            /\ Cardinality({k \in DOMAIN date_index : i \in IdsOf(date_index[k])}) = 1
            /\ strftime_Ym(records[i].date) \in DOMAIN date_index
            /\ i \in IdsOf(date_index[strftime_Ym(records[i].date)])
            /\ \A c \in Recognized :
                   i \in IdsOf(category_index[c]) <=> records[i].category = c
        /\ \A i, j \in 1..Len(records) :
               (strftime_Ym(records[i].date) = strftime_Ym(records[j].date))
                   <=> (records[i].date.y = records[j].date.y
                        /\ records[i].date.m = records[j].date.m)
        /\ \A k \in DOMAIN date_index :
               /\ date_index[k] # <<>>
               /\ Increasing(date_index[k])
               /\ IdsOf(date_index[k]) \subseteq 1..Len(records)
        /\ \A c \in Recognized :
               /\ Increasing(category_index[c])
               /\ IdsOf(category_index[c]) \subseteq 1..Len(records)

\* C1's case: a loaded record of an unrecognized category, then adds that
\* filled one month bucket with several records.
C1_Witness ==
    /\ pc = "ready"
    /\ ret.op = "add_record" /\ ret.raised = "none"
    /\ Len(records) = 3
    /\ \E i \in 1..Len(records) : records[i].category \notin Recognized
    /\ \E k \in DOMAIN date_index : Len(date_index[k]) >= 2

\* C2: an add_record with an unrecognized category or an amount <= 0 raises
\* the validation error and changes nothing: records, both indexes, the
\* backing file and the .bak file are as before the call.
C2_RejectedAddChangesNothing ==
    [][(ret'.op = "add_record"
        /\ (ret'.category \notin Recognized \/ ret'.amount <= 0))
       => (ret'.raised = "ValueError"
           /\ UNCHANGED <<records, date_index, category_index, file, bak>>)]_vars

\* C2's case: a call with amount 0 or -5 was rejected on a store that holds
\* records and a written file.
C2_Witness ==
    /\ ret.op = "add_record" /\ ret.raised = "ValueError"
    /\ ret.amount <= 0
    /\ Len(records) >= 1
    /\ file.kind = "json"

\* C4: after any adds, failed saves included, the backing file holds the full
\* serialization of the collection as of the most recent add whose save
\* succeeded (the content found at start while none has); never an empty or
\* partial file, never another set of entries.
C4_FileIsLastCommittedSnapshot ==
    pc = "ready" => file = committed

\* C5: a successful save leaves in .bak the content the backing file had
\* before that save (stated for a file that held a collection before it).
C5_BakHoldsPreviousContent ==
    [][(ret'.op = "add_record" /\ ret'.save = "ok" /\ file.kind = "json")
       => bak' = file]_vars

ValidAddWhoseSaveFailed ==
    /\ ret'.op = "add_record"
    /\ ret'.category \in Recognized /\ ret'.amount > 0
    /\ ret'.save # "ok"

NewEntryAppended ==
    /\ Len(records') = Len(records) + 1
    /\ SubSeq(records', 1, Len(records)) = records
    /\ records'[Len(records')].category = ret'.category
    /\ records'[Len(records')].amount = ret'.amount
    /\ date_index' = build_indexes(records').date_index
    /\ category_index' = build_indexes(records').category_index
    /\ Len(records') \in IdsOf(date_index'[strftime_Ym(records'[Len(records')].date)])
    /\ Len(records') \in IdsOf(category_index'[ret'.category])

DatesNamed(s, widths) ==
    {Date(Num(SubSeq(s, 1, 4)), Num(SubSeq(s, 6, 5 + w[1])),
          Num(SubSeq(s, 7 + w[1], Len(s)))) :
        w \in {v \in widths \X widths :
                /\ Len(s) = 6 + v[1] + v[2]
                /\ s[5] = "-" /\ s[6 + v[1]] = "-"
                /\ AllDigits(SubSeq(s, 1, 4))
                /\ AllDigits(SubSeq(s, 6, 5 + v[1]))
                /\ AllDigits(SubSeq(s, 7 + v[1], Len(s)))
                /\ Num(SubSeq(s, 1, 4)) >= 1
                /\ Num(SubSeq(s, 6, 5 + v[1])) \in 1..12
                /\ Num(SubSeq(s, 7 + v[1], Len(s))) \in
                       1..DaysInMonth(Num(SubSeq(s, 1, 4)), Num(SubSeq(s, 6, 5 + v[1])))}}

HasDateText(o, widths) ==
    "date" \in o.keys /\ o.date.t = "str" /\ DatesNamed(o.date.s, widths) # {}

AsRecord(o, widths) ==
    Record(CHOOSE d \in DatesNamed(o.date.s, widths) : TRUE,
           o.category, o.amount, o.description)

HasReadableDate(o) == HasDateText(o, {1, 2})

\* A record that ends the whole load: a date that is no string, or a date that
\* reads while the object's keys are not exactly the four of Record.
EndsTheLoad(o) ==
    /\ "date" \in o.keys
    /\ o.date.t # "str" \/ (HasReadableDate(o) /\ o.keys # RecordParams)

DayNumber(date) == date.y * 10000 + date.m * 100 + date.d

\* The records that satisfy the filters given.
Matching(start_date, end_date, category) ==
    {i \in 1..Len(records) :
        /\ start_date # NoDate => DayNumber(start_date) <= DayNumber(records[i].date)
        /\ end_date # NoDate => DayNumber(records[i].date) <= DayNumber(end_date)
        /\ category # NoCategory => records[i].category = category}

IsQuery == ret.op = "query_records"

C7_FilterQueryIsExact ==
    (IsQuery /\ ret.category \in Recognized \cup {NoCategory}
        /\ (ret.value.start_date = NoDate \/ ret.value.end_date = NoDate)) =>
        /\ ret.value.result
               = SelectSeq(AllIds,
                           LAMBDA i : i \in Matching(ret.value.start_date,
                                                     ret.value.end_date, ret.category))
        /\ (ret.category = NoCategory /\ ret.value.start_date = NoDate
               /\ ret.value.end_date = NoDate) => ret.value.result = AllIds

\* C7's case: a category with one bound, where the category leaves a record
\* out and the bound leaves another out.
C7_Witness ==
    /\ IsQuery /\ ret.category = Income
    /\ ret.value.start_date # NoDate /\ ret.value.end_date = NoDate
    /\ Len(ret.value.result) = 1
    /\ \E i \in 1..Len(records) :
           /\ records[i].category # Income
           /\ i \in Matching(ret.value.start_date, NoDate, NoCategory)
    /\ \E i \in 1..Len(records) :
           /\ records[i].category = Income
           /\ i \notin Matching(ret.value.start_date, NoDate, NoCategory)

RECURSIVE SumAmounts(_)
SumAmounts(ids) ==
    IF ids = {} THEN 0
    ELSE LET i == CHOOSE j \in ids : TRUE IN records[i].amount + SumAmounts(ids \ {i})

OfCategory(c, filter) ==
    {i \in 1..Len(records) :
        records[i].category = c /\ (filter = NoCategory \/ c = filter)}

OrdersFor(start_date, end_date) ==
    IterationOrders(date_range(start_date, end_date) \cap DOMAIN date_index)

\* C11: with both bounds and a recognized category, query_records takes its
\* candidates from the global month index and drops the category narrowing:
\* the list returned is the one the same call without category returns (for
\* every iteration order of the month keys), whatever the categories in it.
C11_CategoryIgnoredWithBothBounds ==
    (IsQuery /\ ret.category \in Recognized
        /\ ret.value.start_date # NoDate /\ ret.value.end_date # NoDate) =>
        /\ \E order \in OrdersFor(ret.value.start_date, ret.value.end_date) :
               ret.value.result
                   = query_records(ret.value.start_date, ret.value.end_date,
                                   NoCategory, order)
        /\ \A order \in OrdersFor(ret.value.start_date, ret.value.end_date) :
               query_records(ret.value.start_date, ret.value.end_date,
                             ret.category, order)
                   = query_records(ret.value.start_date, ret.value.end_date,
                                   NoCategory, order)
        /\ IdsOf(ret.value.result)
               = Matching(ret.value.start_date, ret.value.end_date, NoCategory)

\* C11's case: a query for Income between two bounds returned a record of
\* another category.
C11_Witness ==
    /\ IsQuery /\ ret.category = Income
    /\ ret.value.start_date # NoDate /\ ret.value.end_date # NoDate
    /\ \E i \in IdsOf(ret.value.result) : records[i].category # Income
    /\ \E i \in IdsOf(ret.value.result) : records[i].category = Income

\* Calendar months counted from year 0, and the first day of the k-th one.
MonthNumber(date) == date.y * 12 + date.m - 1
MonthOf(k) == Date(k \div 12, (k % 12) + 1, 1)

\* The keys of the calendar months from the month of a through the month of b.
MonthKeys(a, b) == {strftime_Ym(MonthOf(k)) : k \in MonthNumber(a)..MonthNumber(b)}

InMonthLoop == ret.op = "month_loop"

ObjsIn(f) == IF f.kind = "json" THEN {f.recs[p] : p \in 1..Len(f.recs)} ELSE {}

\* C13: two Accounts share the file without locking and every save rewrites
\* the whole file from the saving process's own collection, so after a
\* successful add the file holds that process's collection and of the other
\* process's entries only those the saving process holds too: an entry one
\* process added and saved is lost when the other, having loaded earlier, adds.
C13_LastWriterWins ==
    /\ (ret.op = "add_record" /\ ret.save = "ok") =>
           /\ file = Serialize(records)
           /\ \A j \in 1..Len(other.records) :
                  Dump(other.records[j]) \in ObjsIn(file) =>
                      \E i \in 1..Len(records) : records[i] = other.records[j]
    /\ (ret.op = "other.add_record" /\ ret.save = "ok") =>
           /\ file = Serialize(other.records)
           /\ \A i \in 1..Len(records) :
                  Dump(records[i]) \in ObjsIn(file) =>
                      \E j \in 1..Len(other.records) : other.records[j] = records[i]

\* C13's case: the first process added "salary" and its save succeeded, the
\* second process then added and saved, and the file holds the second
\* process's entry and not "salary".
C13_Witness ==
    /\ ret.op = "other.add_record" /\ ret.save = "ok"
    /\ file.kind = "json"
    /\ \E i \in 1..Len(records) :
           /\ records[i].description = "salary"
           /\ Dump(records[i]) \notin ObjsIn(file)
    /\ \E o \in ObjsIn(file) : o.description = "groceries"

\* The objects of a file that load_records does not bring into memory.
Unloaded(f) ==
    {o \in ObjsIn(f) : \A i \in 1..Len(load_records(f)) : Dump(load_records(f)[i]) # o}

\* No save has gone through since the Account was constructed: the .bak file,
\* absent before, is a list only after one; committed is then the file load read.
NoSaveYet == pc = "ready" /\ bak.kind # "json"

\* The first add whose save goes through.
FirstSavedAdd == NoSaveYet /\ ret'.op = "add_record" /\ ret'.save = "ok"

\* C14 as stated: the first add whose save succeeds leaves in the file and in
\* .bak exactly the entries load accepted plus the new entry.
C14_FileIsLoadedPlusNew ==
    [][FirstSavedAdd =>
           /\ file' = Serialize(Append(load_records(committed),
                                       records'[Len(records')]))
           /\ bak' = file']_vars

\* C14: the first add whose save succeeds writes the whole collection in
\* memory to the file and to .bak: the entries load accepted, then every
\* entry added since (those whose own save failed included), the new entry
\* last; no record of the old file that load left out is in either file.
C14_FirstSaveDropsUnloaded ==
    [][FirstSavedAdd =>
           /\ file' = Serialize(records')
           /\ bak' = file'
           /\ records' = Append(records, records'[Len(records')])
           /\ records'[Len(records')].category = ret'.category
           /\ SubSeq(records', 1, Len(load_records(committed))) = load_records(committed)
           /\ Unloaded(committed) \cap (ObjsIn(file') \cup ObjsIn(bak')) = {}]_vars

\* C14's case: the file and .bak hold the loaded "rent" and the new "salary"
\* after a saved add; every file of LostFiles held a record that load left out.
C14_Witness ==
    /\ ret.op = "add_record" /\ ret.save = "ok"
    /\ file = Serialize(records) /\ bak = file
    /\ Len(records) = 2
    /\ records[1].description = "rent" /\ records[2].description = "salary"

====
